---- MODULE Spec2Model ----
(***************************************************************************)
(* Model of hayagriva's src/lib.rs: the Entry record with its typed        *)
(* accessors, the recursive entry-type constraint checker and the YAML     *)
(* ingestion engine (load_yaml_structure / entry_from_yaml).               *)
(*                                                                         *)
(* Tagged values (Rust enums) are tuples <<tag, payload>>; Option is       *)
(* <<"None">> or <<"Some", x>>; Result is <<"Ok", x>> or <<"Err", e>>; a   *)
(* panic of the Rust code is the outcome <<"Panic", what>>.                *)
(* An i64 is kept at its full width as four 16-bit limbs <<h, a, b, c>>    *)
(* (h signed, a, b, c unsigned), its value being h*2^48+a*2^32+b*2^16+c.   *)
(***************************************************************************)
EXTENDS Integers, Sequences, FiniteSets, TLC

VARIABLES
    entry,      \* an Entry built through Entry::new and the setters
    file,       \* the text given to load_yaml_structure, as YamlLoader reads it
    result,     \* what load_yaml_structure returned for `file`
    c_entry,    \* the entry check_with_spec is called on
    c_spec,     \* the EntryTypeSpec it is called with
    c_result    \* what check_with_spec returned

vars == <<entry, file, result, c_entry, c_spec, c_result>>

\* ------------------------------------------------------------------ bounds

\* fields an Entry built through the setters holds at most
MaxContent == 2
\* entries of the root mapping of a document with several entries
MaxEntries == 3
\* fields of the entry of a document with several fields
MaxFields == 2
\* levels of `parent` nesting below a top-level entry
MaxDepth == 2
\* entries of the parent tree check_with_spec is called on
MaxNodes == 3
\* nodes of the EntryTypeSpec check_with_spec is called with
MaxSpecNodes == 3

\* ------------------------------------------------------- Option and Result

None == <<"None">>
Some(x) == <<"Some", x>>
IsSome(o) == o[1] = "Some"
Ok(x) == <<"Ok", x>>
Err(e) == <<"Err", e>>
Panic(what) == <<"Panic", what>>
IsOk(r) == r[1] = "Ok"
IsErr(r) == r[1] = "Err"
IsPanic(r) == r[1] = "Panic"
NotCalled == <<"NotCalled">>

\* vec.push(r?): the vector with the value of r pushed, or the error of r
pushed(vec, r) == IF IsOk(r) THEN Ok(Append(vec, r[2])) ELSE r

\* -------------------------------------------------------------- i64, i32

Limb == 2^16
HalfLimb == 2^15

\* the i64 of an integer small enough for the model checker (32 bits)
I64(n) ==
    <<IF n < 0 THEN -1 ELSE 0,
      IF n < 0 THEN Limb - 1 ELSE 0,
      (n \div Limb) % Limb,
      n % Limb>>

I64Max == <<HalfLimb - 1, Limb - 1, Limb - 1, Limb - 1>>

\* x - y on the limbs, before the top limb is cut to 16 bits
SubLimbs(x, y) ==
    LET d0 == x[4] - y[4]
        b0 == IF d0 < 0 THEN 1 ELSE 0
        d1 == x[3] - y[3] - b0
        b1 == IF d1 < 0 THEN 1 ELSE 0
        d2 == x[2] - y[2] - b1
        b2 == IF d2 < 0 THEN 1 ELSE 0
    IN  <<x[1] - y[1] - b2, d2 + b2 * Limb, d1 + b1 * Limb, d0 + b0 * Limb>>

SubOverflows(x, y) == SubLimbs(x, y)[1] \notin (-HalfLimb) .. (HalfLimb - 1)

WrapTop(d) == <<((d[1] + HalfLimb) % Limb) - HalfLimb, d[2], d[3], d[4]>>

\* `x - y` of two i64: with overflow checks (debug builds) an overflow
\* panics, without them (release builds) the result wraps
i64_sub(x, y, overflow_checks) ==
    IF SubOverflows(x, y) /\ overflow_checks
    THEN Panic("attempt to subtract with overflow")
    ELSE Ok(WrapTop(SubLimbs(x, y)))

\* the mathematical x - y is an i64, and it is d
IsDifference(d, x, y) == ~SubOverflows(x, y) /\ d = SubLimbs(x, y)

\* `x as i32`: the low 32 bits, read as a signed number
as_i32(x) == (IF x[3] >= HalfLimb THEN x[3] - Limb ELSE x[3]) * Limb + x[4]

\* ---------------------------------------------------------- field values

Shapes ==
    {"FormattableString", "FormattedString", "Text", "Integer", "Date",
     "Persons", "PersonsWithRoles", "IntegerOrText", "Range", "Duration",
     "TimeRange", "Url", "Language", "Entries"}

\* FieldTypes::from(item): total
from(shape, item) == <<shape, item>>

\* <T>::try_from(FieldTypes): fails unless the stored variant is T's
try_from(shape, ft) == IF ft[1] = shape THEN Ok(ft[2]) ELSE Err("WrongType")

\* the names of the fields the model's entries may hold
FieldNames ==
    {"parent", "title", "author", "editor", "affiliated", "organization",
     "issue", "edition", "version", "volume", "volume-total", "page-range",
     "page-total", "time-range", "runtime", "issn", "isbn", "doi",
     "serial-number", "url", "language", "note", "location", "publisher",
     "archive", "archive-location", "date", "genre"}

Absent == <<"Absent">>
EmptyContent == [f \in FieldNames |-> Absent]

\* Entry::new
new(key, entry_type) ==
    [key |-> key, entry_type |-> entry_type, content |-> EmptyContent]

\* Entry::get: None for a field the map does not hold
get(self, key) ==
    IF Len(self.content[key]) = 1 THEN None ELSE Some(self.content[key])

\* the buggy insert: keeps the value a field already holds
set_keeping_old(self, key, value) ==
    IF Len(self.content[key]) = 1
    THEN [self EXCEPT !.content[key] = value]
    ELSE self

\* Entry::set: HashMap::insert, overwriting
set(self, key, value) == [self EXCEPT !.content[key] = value]

\* fields!: get_<name> for the field field_name of concrete type shape
fields_get(self, field_name, shape) ==
    LET item == get(self, field_name)
    IN  IF IsSome(item) THEN try_from(shape, item[2]) ELSE Err("NoSuchField")

\* fields!(single_set ...): set_<name>
fields_single_set(self, field_name, shape, item) ==
    set(self, field_name, from(shape, item))

\* the accessor pairs the fields! invocations declare: name, field, type
Fields ==
    {<<"parents", "parent", "Entries">>,
     <<"title", "title", "FormattableString">>,
     <<"editor", "editor", "Persons">>,
     <<"affiliated_persons", "affiliated", "PersonsWithRoles">>,
     <<"organization", "organization", "Text">>,
     <<"issue", "issue", "IntegerOrText">>,
     <<"edition", "edition", "IntegerOrText">>,
     <<"version", "version", "Text">>,
     <<"volume", "volume", "Range">>,
     <<"total_volumes", "volume-total", "Integer">>,
     <<"page_range", "page-range", "Range">>,
     <<"time_range", "time-range", "TimeRange">>,
     <<"issn", "issn", "Text">>,
     <<"isbn", "isbn", "Text">>,
     <<"doi", "doi", "Text">>,
     <<"serial_number", "serial-number", "Text">>,
     <<"url", "url", "Url">>,
     <<"language", "language", "Language">>,
     <<"note", "note", "Text">>,
     <<"location", "location", "FormattableString">>,
     <<"publisher", "publisher", "FormattableString">>,
     <<"archive", "archive", "FormattableString">>,
     <<"archive_location", "archive-location", "FormattableString">>}

\* the setters declared alone, their getters being written by hand
SingleSets ==
    {<<"authors", "author", "Persons">>,
     <<"total_pages", "page-total", "Integer">>,
     <<"runtime", "runtime", "Duration">>}

get_parents(self) == fields_get(self, "parent", "Entries")
get_page_range(self) == fields_get(self, "page-range", "Range")
get_time_range(self) == fields_get(self, "time-range", "TimeRange")

\* get_authors: an empty list for no `author` field, and an unwrap of the
\* the absent field reported as the other accessors report it
get_authors_no_fallback(self) ==
    LET item == get(self, "author")
    IN  IF IsSome(item)
        THEN LET conv == try_from("Persons", item[2])
             IN  IF IsOk(conv) THEN Ok(conv[2])
                 ELSE Panic("unwrap on an Err value")
        ELSE Err("NoSuchField")

\* conversion for a field that is there
get_authors(self) ==
    LET item == get(self, "author")
    IN  IF IsSome(item)
        THEN LET conv == try_from("Persons", item[2])
             IN  IF IsOk(conv) THEN Ok(conv[2])
                 ELSE Panic("unwrap on an Err value")
        ELSE Ok(<<>>)

\* get_page_total: the page-total field, or else end - start of page-range
get_page_total(self, overflow_checks) ==
    LET item == get(self, "page-total")
    IN  IF IsSome(item)
        THEN try_from("Integer", item[2])
        ELSE LET r == get_page_range(self)
             IN  IF IsErr(r) THEN r
                 ELSE LET d == i64_sub(r[2].end, r[2].start, overflow_checks)
                      IN  IF IsPanic(d) THEN d
                          ELSE try_from("Integer", from("Integer", d[2]))

\* Duration: whole seconds; `end - start` is the Sub of the types module
duration_sub(x, y) == x - y

\* get_runtime: the runtime field, or else end - start of time-range
get_runtime(self) ==
    LET item == get(self, "runtime")
    IN  IF IsSome(item)
        THEN try_from("Duration", item[2])
        ELSE LET r == get_time_range(self)
             IN  IF IsErr(r) THEN r
                 ELSE try_from("Duration",
                               from("Duration", duration_sub(r[2].end, r[2].start)))

\* ------------------------------------------------------------- Yaml

\* the variants of yaml_rust's Yaml the loader produces; a Hash is the
\* LinkedHashMap's entries in insertion order, as <<key, value>> pairs
YString(t) == <<"String", t>>
YInteger(i) == <<"Integer", i>>
YReal(t) == <<"Real", t>>
YBoolean(b) == <<"Boolean", b>>
YArray(items) == <<"Array", items>>
YHash(pairs) == <<"Hash", pairs>>
YNull == <<"Null">>

into_string(y) == IF y[1] = "String" THEN Some(y[2]) ELSE None
as_str(y) == into_string(y)
as_i64(y) == IF y[1] = "Integer" THEN Some(y[2]) ELSE None
into_i64(y) == as_i64(y)
as_bool(y) == IF y[1] = "Boolean" THEN Some(y[2]) ELSE None
is_array(y) == y[1] = "Array"
into_hash(y) == IF y[1] = "Hash" THEN Some(y[2]) ELSE None
\* `for item in value`: the elements of an Array, nothing for another value
into_iter(y) == IF y[1] = "Array" THEN y[2] ELSE <<>>

\* f64's Display of the number a Real holds (as_f64, then to_string)
RealDisplay == [t \in {"1.5", "1e3", ".5"} |->
                   CASE t = "1.5" -> "1.5" [] t = "1e3" -> "1000" [] t = ".5" -> "0.5"]
as_f64(y) ==
    IF y[1] = "Real" /\ y[2] \in DOMAIN RealDisplay THEN Some(y[2]) ELSE None
f64_to_string(t) == RealDisplay[t]

\* i64's Display: decimal digits, most significant first
Digit == [d \in 0 .. 9 |->
             CASE d = 0 -> "0" [] d = 1 -> "1" [] d = 2 -> "2" [] d = 3 -> "3"
               [] d = 4 -> "4" [] d = 5 -> "5" [] d = 6 -> "6" [] d = 7 -> "7"
               [] d = 8 -> "8" [] d = 9 -> "9"]

\* the magnitude of an i64 as four unsigned limbs (of i64::MIN too: 2^63)
Magnitude(x) ==
    IF x[1] >= 0 THEN x
    ELSE LET d == SubLimbs(<<0, 0, 0, 0>>, x) IN <<d[1] % Limb, d[2], d[3], d[4]>>

\* an unsigned four-limb number divided by ten: <<quotient, remainder>>
DivTen(m) ==
    LET q1 == m[1] \div 10
        r1 == m[1] % 10
        c2 == r1 * Limb + m[2]
        c3 == (c2 % 10) * Limb + m[3]
        c4 == (c3 % 10) * Limb + m[4]
    IN  << <<q1, c2 \div 10, c3 \div 10, c4 \div 10>>, c4 % 10 >>

RECURSIVE UnsignedDisplay(_)
UnsignedDisplay(m) ==
    LET qr == DivTen(m)
    IN  IF qr[1] = <<0, 0, 0, 0>> THEN Digit[qr[2]]
        ELSE UnsignedDisplay(qr[1]) \o Digit[qr[2]]

i64_to_string(x) ==
    IF x[1] < 0 THEN "-" \o UnsignedDisplay(Magnitude(x))
    ELSE UnsignedDisplay(x)

\* ----------------------------------------------------- LinkedHashMap

\* keeps the pairs whose key is a string, the key unwrapped
yaml_hash_map_with_string_keys(map) ==
    LET keep == SelectSeq(map, LAMBDA kv : IsSome(into_string(kv[1])))
    IN  [i \in DOMAIN keep |-> <<into_string(keep[i][1])[2], keep[i][2]>>]

\* LinkedHashMap::get on a map with string keys
map_get(map, k) ==
    IF \E i \in DOMAIN map : map[i][1] = k
    THEN Some(map[CHOOSE i \in DOMAIN map : map[i][1] = k][2])
    ELSE None

\* ------------------------------------------------------------ errors

Structure == <<"Structure">>
KeyUnparsable == <<"KeyUnparsable">>
Scan == <<"Scan">>
EntryStructure(key) == <<"EntryStructure", key>>
FieldNameUnparsable(key) == <<"FieldNameUnparsable", key>>

\* YamlBibliographyError::new_data_type_error
new_data_type_error(key, field, expected) ==
    <<"DataTypeMismatch", key, field, expected>>

\* YamlBibliographyError::new_data_type_src_error
new_data_type_src_error(key, field, dtype_err) ==
    <<"DataType", key, field, dtype_err>>

\* YamlDataTypeError, with the YamlFormattableStringError it may wrap
MissingRequiredField == <<"MissingRequiredField">>
MismatchedPrimitive == <<"MismatchedPrimitive">>
RangeError == <<"Range">>
FormattableStringError(e) == <<"FormattableString", e>>

\* ------------------------------------------------------ sample values

\* FormattableString::new and new_shorthand
FormattableString_new(value, title_case, sentence_case, verbatim) ==
    [value |-> value, title_case |-> title_case,
     sentence_case |-> sentence_case, verbatim |-> verbatim]
FormattableString_new_shorthand(value) ==
    FormattableString_new(value, None, None, FALSE)

Person(name, given_name, prefix, suffix, alias) ==
    [name |-> name, given_name |-> given_name, prefix |-> prefix,
     suffix |-> suffix, alias |-> alias]

Range(start, end) == [start |-> start, end |-> end]

\* Date::from_year
Date_from_year(year) == [year |-> year, month |-> None, day |-> None]

QualifiedUrl(value, visit_date) == [value |-> value, visit_date |-> visit_date]

\* ------------------------------------ the parsers of the types module

\* EntryType::from_str on a lowercased name
EntryTypeNamed ==
    [n \in {"article", "book", "periodical", "anthology", "misc"} |->
        CASE n = "article" -> "Article" [] n = "book" -> "Book"
          [] n = "periodical" -> "Periodical" [] n = "anthology" -> "Anthology"
          [] n = "misc" -> "Misc"]
EntryType_from_str(t) ==
    IF t \in DOMAIN EntryTypeNamed THEN Ok(EntryTypeNamed[t])
    ELSE Err("VariantNotFound")

\* str::to_lowercase, on the strings with capital letters the inputs use
Lowercased ==
    [t \in {"Article", "BOOK", "Periodical", "Foo", "Translator"} |->
        CASE t = "Article" -> "article" [] t = "BOOK" -> "book"
          [] t = "Periodical" -> "periodical" [] t = "Foo" -> "foo"
          [] t = "Translator" -> "translator"]
to_lowercase(t) == IF t \in DOMAIN Lowercased THEN Lowercased[t] ELSE t

\* PersonRole::from_str on a lowercased name
PersonRoles == {"translator", "director"}
PersonRole_from_str(t) ==
    IF t \in PersonRoles THEN Ok(t) ELSE Err("VariantNotFound")
PersonRole_Unknown(role) == <<"Unknown", role>>

\* Date::from_str
Date_from_str(t) ==
    IF t = "2020-05" THEN Ok([year |-> 2020, month |-> Some(5), day |-> None])
    ELSE Err(<<"Date", "DateError">>)

\* Person::from_strings on the parts of s.split(',')
Person_from_split(t) ==
    CASE t = "Smith, John" -> Ok(Person("Smith", Some("John"), None, None, None))
      [] t = "Doe" -> Ok(Person("Doe", None, None, None, None))
      [] OTHER -> Err(<<"Person", "PersonError">>)

\* Duration::from_str and Duration::range_from_str
Duration_from_str(t) ==
    CASE t = "00:01:00" -> Ok(60)
      [] t = "00:01:30" -> Ok(90)
      [] OTHER -> Err(<<"Duration", "DurationError">>)
Duration_range_from_str(t) ==
    IF t = "00:01:00-00:01:30" THEN Ok(Range(60, 90))
    ELSE Err(<<"Duration", "DurationError">>)

\* Url::parse
Url_parse(t) ==
    IF t = "https://a.example/" THEN Ok(t) ELSE Err(<<"Url", "ParseError">>)

\* str::parse::<LanguageIdentifier>
LanguageIdentifier_parse(t) ==
    IF t \in {"en", "de"} THEN Ok(t) ELSE Err("LanguageIdentifierError")

\* types::get_range
get_range(t) ==
    CASE t = "10-50" -> Some(Range(I64(10), I64(50)))
      [] t = "3-9" -> Some(Range(I64(3), I64(9)))
      [] OTHER -> None

\* the values of each concrete type the setters are called with
SamplesOf ==
    [shape \in Shapes |->
    CASE shape = "FormattableString" ->
            {FormattableString_new_shorthand("Title"),
             FormattableString_new("title", Some("Title"), None, TRUE)}
      [] shape = "FormattedString" -> {"Title"}
      [] shape = "Text" -> {"x", "y"}
      [] shape = "Integer" -> {I64(12), I64(-1)}
      [] shape = "Date" -> {Date_from_year(2020)}
      [] shape = "Persons" ->
            {<<>>, <<Person("Smith", Some("John"), None, None, None)>>}
      [] shape = "PersonsWithRoles" ->
            {<< <<<<Person("Doe", None, None, None, None)>>, "translator">> >>}
      [] shape = "IntegerOrText" -> {<<"Number", I64(3)>>, <<"Str", "x">>}
      [] shape = "Range" ->
            {Range(I64(10), I64(50)), Range(I64(-1), I64Max)}
      [] shape = "Duration" -> {60, 90}
      [] shape = "TimeRange" -> {Range(60, 90)}
      [] shape = "Url" -> {QualifiedUrl("https://a.example/", None)}
      [] shape = "Language" -> {"en"}
      [] shape = "Entries" -> {<<>>, <<new("p", "Book")>>}]
Samples(shape) == SamplesOf[shape]

\* a stored value of a shape other than the one the field's accessor reads
OtherShaped(shape) ==
    IF shape = "Text" THEN from("Integer", I64(12)) ELSE from("Text", "x")

\* ------------------------------------------------- the setters, as actions

Present(self) == {f \in FieldNames : IsSome(get(self, f))}

\* a setter may add a field only while the entry holds fewer than MaxContent
MayHold(self, field_name) ==
    field_name \in Present(self) \/ Cardinality(Present(self)) < MaxContent

\* Entry::new("smith2020", EntryType::Misc); nothing else is called
InitAccess ==
    /\ entry = new("smith2020", "Misc")
    /\ file = NotCalled /\ result = NotCalled
    /\ c_entry = NotCalled /\ c_spec = NotCalled /\ c_result = NotCalled

\* entry.set(key, value), with a value of any shape
CallSet ==
    \E row \in Fields \cup SingleSets :
        /\ MayHold(entry, row[2])
        /\ entry' = set(entry, row[2], OtherShaped(row[3]))
        /\ UNCHANGED <<file, result, c_entry, c_spec, c_result>>

\* entry.set_<name>(item), for every setter fields! declares
CallSingleSet ==
    \E row \in Fields \cup SingleSets :
        \E item \in Samples(row[3]) :
            /\ MayHold(entry, row[2])
            /\ entry' = fields_single_set(entry, row[2], row[3], item)
            /\ UNCHANGED <<file, result, c_entry, c_spec, c_result>>

NextAccess == CallSet \/ CallSingleSet

SpecAccess == InitAccess /\ [][NextAccess]_vars

\* ------------------------------------------------------- ingestion

\* `value` alone looked up: the alternates never stand in for it
FormattableCandidates_value_only(map) ==
    IF IsSome(map_get(map, "value")) /\ IsSome(into_string(map_get(map, "value")[2]))
    THEN <<into_string(map_get(map, "value")[2])[2]>>
    ELSE <<>>

\* the strings among the values of `value`, `sentence-case`, `title-case`
FormattableCandidates(map) ==
    LET found(f) == IF IsSome(map_get(map, f))
                    THEN into_string(map_get(map, f)[2]) ELSE None
        strings == <<found("value"), found("sentence-case"), found("title-case")>>
        kept == SelectSeq(strings, IsSome)
    IN  [i \in DOMAIN kept |-> kept[i][2]]

\* an optional string key of the formattable map
OptionalString(map, f) ==
    IF IsSome(map_get(map, f))
    THEN IF IsSome(into_string(map_get(map, f)[2]))
         THEN Ok(Some(into_string(map_get(map, f)[2])[2]))
         ELSE Err("ValueIsNoString")
    ELSE Ok(None)

formattable_str_from_hash_map(map) ==
    LET m == yaml_hash_map_with_string_keys(map)
        fields == FormattableCandidates(m)
    IN  IF Len(fields) = 0 THEN Err("NoValue")
        ELSE LET value == fields[1]
                 verbatim ==
                     IF IsSome(map_get(m, "verbatim"))
                     THEN IF IsSome(as_bool(map_get(m, "verbatim")[2]))
                          THEN Ok(as_bool(map_get(m, "verbatim")[2])[2])
                          ELSE Err("VerbatimNotBool")
                     ELSE Ok(FALSE)
                 sentence_case == OptionalString(m, "sentence-case")
                 title_case == OptionalString(m, "title-case")
             IN  IF IsErr(verbatim) THEN verbatim
                 ELSE IF IsErr(sentence_case) THEN sentence_case
                 ELSE IF IsErr(title_case) THEN title_case
                 ELSE Ok(FormattableString_new(value, title_case[2],
                                               sentence_case[2], verbatim[2]))

\* map.remove(f).and_then(|v| v.into_string())
RemovedString(map, f) ==
    IF IsSome(map_get(map, f)) THEN into_string(map_get(map, f)[2]) ELSE None

person_from_yaml(item, key, field_name) ==
    IF IsSome(into_hash(item))
    THEN LET map == yaml_hash_map_with_string_keys(into_hash(item)[2])
             name == RemovedString(map, "name")
         IN  IF IsSome(name)
             THEN Ok(Person(name[2], RemovedString(map, "given_name"),
                            RemovedString(map, "prefix"), RemovedString(map, "suffix"),
                            RemovedString(map, "alias")))
             ELSE Err(new_data_type_src_error(key, field_name, MissingRequiredField))
    ELSE IF IsSome(into_string(item))
    THEN LET p == Person_from_split(into_string(item)[2])
         IN  IF IsOk(p) THEN p
             ELSE Err(new_data_type_src_error(key, field_name, p[2]))
    ELSE Err(new_data_type_error(key, field_name, "person"))

\* the loop of persons_from_yaml from item i on: `persons` is Ok(the persons
\* pushed so far), or the error the function has returned with
RECURSIVE persons_loop(_, _, _, _, _)
persons_loop(items, i, persons, key, field_name) ==
    IF IsErr(persons) \/ i > Len(items) THEN persons
    ELSE persons_loop(items, i + 1,
                      pushed(persons[2], person_from_yaml(items[i], key, field_name)),
                      key, field_name)

\* a value that is no array is the one person
persons_from_yaml(value, key, field_name) ==
    persons_loop(IF is_array(value) THEN into_iter(value) ELSE <<value>>,
                 1, Ok(<<>>), key, field_name)

\* "title" | "publisher" | "location" | "archive" | "archive-location"
formattable_arm(key, field_name, value) ==
    IF IsSome(into_hash(value))
    THEN LET f == formattable_str_from_hash_map(into_hash(value)[2])
         IN  IF IsOk(f) THEN Ok(from("FormattableString", f[2]))
             ELSE Err(new_data_type_src_error(key, field_name,
                                              FormattableStringError(f[2])))
    ELSE IF IsSome(into_string(value))
    THEN Ok(from("FormattableString",
                 FormattableString_new_shorthand(into_string(value)[2])))
    ELSE Err(new_data_type_error(key, field_name, "text or formattable string"))

\* "author" | "editor"
persons_arm(key, field_name, value) ==
    LET p == persons_from_yaml(value, key, field_name)
    IN  IF IsOk(p) THEN Ok(from("Persons", p[2])) ELSE p

\* one item of the `affiliated` array
affiliated_item(key, field_name, item) ==
    IF ~IsSome(into_hash(item))
    THEN Err(new_data_type_error(key, field_name, "affiliated person"))
    ELSE LET map == yaml_hash_map_with_string_keys(into_hash(item)[2])
             names == map_get(map, "names")
             role == IF ~IsSome(map_get(map, "role"))
                     THEN Err(new_data_type_src_error(key, field_name,
                                                      MissingRequiredField))
                     ELSE IF ~IsSome(into_string(map_get(map, "role")[2]))
                     THEN Err(new_data_type_src_error(key, field_name,
                                                      MismatchedPrimitive))
                     ELSE Ok(into_string(map_get(map, "role")[2])[2])
             persons == IF IsSome(names)
                        THEN persons_from_yaml(names[2], key, field_name)
                        ELSE Err(new_data_type_src_error(key, field_name,
                                                         MissingRequiredField))
         IN  IF IsErr(persons) THEN persons
             ELSE IF IsErr(role) THEN role
             ELSE LET known == PersonRole_from_str(to_lowercase(role[2]))
                  IN  Ok(<<persons[2],
                           IF IsOk(known) THEN known[2]
                           ELSE PersonRole_Unknown(role[2])>>)

RECURSIVE affiliated_loop(_, _, _, _, _)
affiliated_loop(items, i, res, key, field_name) ==
    IF IsErr(res) THEN res
    ELSE IF i > Len(items) THEN Ok(from("PersonsWithRoles", res[2]))
    ELSE affiliated_loop(items, i + 1,
                         pushed(res[2], affiliated_item(key, field_name, items[i])),
                         key, field_name)

\* "affiliated"
affiliated_arm(key, field_name, value) ==
    IF ~is_array(value)
    THEN Err(new_data_type_error(key, field_name, "affiliated person"))
    ELSE affiliated_loop(into_iter(value), 1, Ok(<<>>), key, field_name)

\* "date": the year of an integer is cut to an i32
date_arm(key, field_name, value) ==
    IF IsSome(as_i64(value))
    THEN Ok(from("Date", Date_from_year(as_i32(as_i64(value)[2]))))
    ELSE IF IsSome(into_string(value))
    THEN LET d == Date_from_str(into_string(value)[2])
         IN  IF IsOk(d) THEN Ok(from("Date", d[2]))
             ELSE Err(new_data_type_src_error(key, field_name, d[2]))
    ELSE Err(new_data_type_error(key, field_name, "date"))

\* "issue" | "edition"
num_or_str_arm(key, field_name, value) ==
    LET as_int == as_i64(value)
        as_string == IF as_int = None THEN into_string(value) ELSE None
    IN  IF IsSome(as_int) THEN Ok(from("IntegerOrText", <<"Number", as_int[2]>>))
        ELSE IF IsSome(as_string)
        THEN Ok(from("IntegerOrText", <<"Str", as_string[2]>>))
        ELSE Err(new_data_type_error(key, field_name, "integer or text"))

\* "volume-total" | "page-total"
integer_arm(key, field_name, value) ==
    IF IsSome(into_i64(value)) THEN Ok(from("Integer", into_i64(value)[2]))
    ELSE Err(new_data_type_error(key, field_name, "integer"))

\* "volume" | "page-range"
range_arm(key, field_name, value) ==
    IF IsSome(as_i64(value))
    THEN Ok(from("Range", Range(as_i64(value)[2], as_i64(value)[2])))
    ELSE IF IsSome(into_string(value))
    THEN LET r == get_range(into_string(value)[2])
         IN  IF IsSome(r) THEN Ok(from("Range", r[2]))
             ELSE Err(new_data_type_src_error(key, field_name, RangeError))
    ELSE Err(new_data_type_error(key, field_name, "integer range"))

\* "runtime"
runtime_arm(key, field_name, value) ==
    IF ~IsSome(into_string(value))
    THEN Err(new_data_type_error(key, field_name, "duration"))
    ELSE LET d == Duration_from_str(into_string(value)[2])
         IN  IF IsOk(d) THEN Ok(from("Duration", d[2]))
             ELSE Err(new_data_type_src_error(key, field_name, d[2]))

\* "time-range"
time_range_arm(key, field_name, value) ==
    IF ~IsSome(into_string(value))
    THEN Err(new_data_type_error(key, field_name, "duration"))
    ELSE LET d == Duration_range_from_str(into_string(value)[2])
         IN  IF IsOk(d) THEN Ok(from("TimeRange", d[2]))
             ELSE Err(new_data_type_src_error(key, field_name, d[2]))

\* the `date` key of a mapping-form url
url_date(key, field_name, map) ==
    LET date == map_get(map, "date")
    IN  IF ~IsSome(date) THEN Ok(None)
        ELSE IF IsSome(as_i64(date[2]))
        THEN Ok(Some(Date_from_year(as_i32(as_i64(date[2])[2]))))
        ELSE IF IsSome(into_string(date[2]))
        THEN LET d == Date_from_str(into_string(date[2])[2])
             IN  IF IsOk(d) THEN Ok(Some(d[2]))
                 ELSE Err(new_data_type_src_error(key, field_name, d[2]))
        ELSE Err(new_data_type_src_error(key, field_name, MismatchedPrimitive))

\* Url::parse, its error wrapped
url_parsed(key, field_name, t) ==
    LET u == Url_parse(t)
    IN  IF IsOk(u) THEN u ELSE Err(new_data_type_src_error(key, field_name, u[2]))

\* "url"
url_arm(key, field_name, value) ==
    IF IsSome(as_str(value))
    THEN LET u == url_parsed(key, field_name, as_str(value)[2])
         IN  IF IsOk(u) THEN Ok(from("Url", QualifiedUrl(u[2], None))) ELSE u
    ELSE IF IsSome(into_hash(value))
    THEN LET map == yaml_hash_map_with_string_keys(into_hash(value)[2])
             v == map_get(map, "value")
             url == IF ~IsSome(v)
                    THEN Err(new_data_type_src_error(key, field_name,
                                                     MissingRequiredField))
                    ELSE IF ~IsSome(into_string(v[2]))
                    THEN Err(new_data_type_src_error(key, field_name,
                                                     MismatchedPrimitive))
                    ELSE url_parsed(key, field_name, into_string(v[2])[2])
             date == url_date(key, field_name, map)
         IN  IF IsErr(url) THEN url
             ELSE IF IsErr(date) THEN date
             ELSE Ok(from("Url", QualifiedUrl(url[2], date[2])))
    ELSE Err(new_data_type_error(key, field_name, "qualified url"))

\* "language"
language_arm(key, field_name, value) ==
    IF IsSome(into_string(value))
       /\ IsOk(LanguageIdentifier_parse(into_string(value)[2]))
    THEN Ok(from("Language", LanguageIdentifier_parse(into_string(value)[2])[2]))
    ELSE Err(new_data_type_error(key, field_name, "unicode language identifier"))

\* any other field name
text_arm(key, field_name, value) ==
    IF IsSome(into_string(value)) THEN Ok(from("Text", into_string(value)[2]))
    ELSE IF IsSome(as_i64(value))
    THEN Ok(from("Text", i64_to_string(as_i64(value)[2])))
    ELSE IF IsSome(as_f64(value))
    THEN Ok(from("Text", f64_to_string(as_f64(value)[2])))
    ELSE Err(new_data_type_error(key, field_name, "text"))

RECURSIVE entry_from_yaml(_, _)
RECURSIVE entry_fields(_, _, _, _)
RECURSIVE parent_loop(_, _, _, _)
RECURSIVE field_value(_, _, _)

\* the for loop of the "parent" arm over an array, from item i on
parent_loop(key, items, i, entries) ==
    IF IsErr(entries) THEN entries
    ELSE IF i > Len(items) THEN Ok(from("Entries", entries[2]))
    ELSE parent_loop(key, items, i + 1,
                     pushed(entries[2], entry_from_yaml(key, items[i])))

\* the nested entries ingested under a key of their own
parent_arm_own_key(key, field_name, value) ==
    parent_loop(field_name, IF is_array(value) THEN into_iter(value) ELSE <<value>>,
                1, Ok(<<>>))

\* "parent": every nested entry is ingested under the key of its owner; a
\* value that is no array is the one nested entry
parent_arm(key, field_name, value) ==
    parent_loop(key, IF is_array(value) THEN into_iter(value) ELSE <<value>>,
                1, Ok(<<>>))

\* the match on the field name: the FieldTypes value of a field, or the error
field_value(key, field_name, value) ==
    CASE field_name \in {"title", "publisher", "location", "archive",
                         "archive-location"} ->
            formattable_arm(key, field_name, value)
      [] field_name \in {"author", "editor"} -> persons_arm(key, field_name, value)
      [] field_name = "affiliated" -> affiliated_arm(key, field_name, value)
      [] field_name = "date" -> date_arm(key, field_name, value)
      [] field_name \in {"issue", "edition"} -> num_or_str_arm(key, field_name, value)
      [] field_name \in {"volume-total", "page-total"} ->
            integer_arm(key, field_name, value)
      [] field_name \in {"volume", "page-range"} -> range_arm(key, field_name, value)
      [] field_name = "runtime" -> runtime_arm(key, field_name, value)
      [] field_name = "time-range" -> time_range_arm(key, field_name, value)
      [] field_name = "url" -> url_arm(key, field_name, value)
      [] field_name = "language" -> language_arm(key, field_name, value)
      [] field_name = "parent" -> parent_arm(key, field_name, value)
      [] OTHER -> text_arm(key, field_name, value)

\* a type string that names no entry type refused
type_field_strict(key, field_name, value, entry_so_far) ==
    IF ~IsSome(into_string(value))
       \/ IsErr(EntryType_from_str(to_lowercase(into_string(value)[2])))
    THEN Err(new_data_type_src_error(key, field_name, MismatchedPrimitive))
    ELSE Ok([entry_so_far EXCEPT !.entry_type =
                EntryType_from_str(to_lowercase(into_string(value)[2]))[2]])

\* the "type" field: Ok(the entry with its type set or left), or the error
type_field(key, field_name, value, entry_so_far) ==
    IF ~IsSome(into_string(value))
    THEN Err(new_data_type_src_error(key, field_name, MismatchedPrimitive))
    ELSE LET tp == EntryType_from_str(to_lowercase(into_string(value)[2]))
         IN  Ok(IF IsOk(tp) THEN [entry_so_far EXCEPT !.entry_type = tp[2]]
                ELSE entry_so_far)

\* entry.content.insert(field_name, value), after the `?`s of the match
content_insert(entry_so_far, field_name, value) ==
    IF IsOk(value) THEN Ok([entry_so_far EXCEPT !.content[field_name] = value[2]])
    ELSE value

\* one turn of the loop over the fields: the entry with field i applied
entry_field(key, pair, entry_so_far) ==
    LET field_name == into_string(pair[1])
    IN  IF ~IsSome(field_name) THEN Err(FieldNameUnparsable(key))
        ELSE IF field_name[2] = "type"
        THEN type_field(key, field_name[2], pair[2], entry_so_far)
        ELSE content_insert(entry_so_far, field_name[2],
                            field_value(key, field_name[2], pair[2]))

\* the loop over the fields from field i on, stopping at the first error
entry_fields(key, pairs, i, entry_so_far) ==
    IF IsErr(entry_so_far) \/ i > Len(pairs) THEN entry_so_far
    ELSE entry_fields(key, pairs, i + 1, entry_field(key, pairs[i], entry_so_far[2]))

entry_from_yaml(key, yaml) ==
    IF ~IsSome(into_hash(yaml)) THEN Err(EntryStructure(key))
    ELSE entry_fields(key, into_hash(yaml)[2], 1,
                      Ok([key |-> key, content |-> EmptyContent, entry_type |-> "Misc"]))

\* the loop of load_yaml_structure over the root mapping, from pair i on:
\* `entries` is Ok(the entries pushed so far), or the error returned
RECURSIVE load_loop(_, _, _)

\* the loop going on after a failing entry: the last error is the one returned
RECURSIVE load_loop_last_error(_, _, _)
load_loop_last_error(doc, i, entries) ==
    IF i > Len(doc) THEN entries
    ELSE LET key == into_string(doc[i][1])
             e == IF IsSome(key) THEN entry_from_yaml(key[2], doc[i][2])
                  ELSE Err(KeyUnparsable)
         IN  load_loop_last_error(doc, i + 1,
                 IF IsErr(e) THEN e
                 ELSE IF IsErr(entries) THEN entries
                 ELSE Ok(Append(entries[2], e[2])))

load_loop(doc, i, entries) ==
    IF IsErr(entries) \/ i > Len(doc) THEN entries
    ELSE LET key == into_string(doc[i][1])
         IN  load_loop(doc, i + 1,
                       pushed(entries[2],
                              IF IsSome(key) THEN entry_from_yaml(key[2], doc[i][2])
                              ELSE Err(KeyUnparsable)))

\* a root that is no mapping read as a document without entries
load_yaml_structure_lenient(loaded) ==
    IF IsErr(loaded) THEN Err(Scan)
    ELSE LET docs == loaded[2]
         IN  IF Len(docs) = 0 THEN Panic("index out of bounds")
             ELSE IF ~IsSome(into_hash(docs[1])) THEN Ok(<<>>)
             ELSE load_loop(into_hash(docs[1])[2], 1, Ok(<<>>))

\* load_yaml_structure on what YamlLoader::load_from_str makes of the text:
\* Err(Scan) or Ok(the documents). docs[0] panics when there is no document
load_yaml_structure(loaded) ==
    IF IsErr(loaded) THEN Err(Scan)
    ELSE LET docs == loaded[2]
         IN  IF Len(docs) = 0 THEN Panic("index out of bounds")
             ELSE IF ~IsSome(into_hash(docs[1])) THEN Err(Structure)
             ELSE load_loop(into_hash(docs[1])[2], 1, Ok(<<>>))

\* ------------------------------------------------- the documents read

Txt(t) == YString(t)
Num(n) == YInteger(I64(n))
Field(name, value) == <<Txt(name), value>>
\* a mapping key that is no string
IntKey == Num(1)
\* nothing, or the one pair
Opt(name, values) == {<<>>} \cup {<<Field(name, v)>> : v \in values}

\* sequences over S of length at most n
SeqsUpTo(S, n) == UNION {[1 .. k -> S] : k \in 0 .. n}
\* the pairs of a mapping: no key twice
DistinctKeys(pairs) ==
    \A i, j \in DOMAIN pairs : i # j => pairs[i][1] # pairs[j][1]

\* mapping forms of a formattable-text field
FormattableMaps ==
    {YHash(a \o b \o c \o d) :
        a \in Opt("value", {Txt("V"), Num(5)}),
        b \in Opt("sentence-case", {Txt("S"), Num(5)}),
        c \in Opt("title-case", {Txt("Tc")}),
        d \in Opt("verbatim", {YBoolean(TRUE), Txt("yes")})}
    \cup {YHash(<< <<IntKey, Txt("x")>>, Field("value", Txt("V")) >>)}

PersonValues ==
    {Txt("Smith, John"), Txt("a,b,c,d,e"), Num(5),
     YHash(<<Field("name", Txt("Doe")), Field("alias", Txt("JD"))>>),
     YHash(<<Field("given_name", Txt("John"))>>),
     YHash(<<Field("name", Num(5))>>),
     YArray(<<Txt("Smith, John"), YHash(<<Field("name", Txt("Doe"))>>)>>),
     YArray(<<Txt("Doe"), Num(5)>>),
     YArray(<<>>)}

AffiliatedValues ==
    {Txt("Doe"), YArray(<<Num(5)>>), YArray(<<>>),
     YArray(<<YHash(<<Field("names", Txt("Doe")), Field("role", Txt("Translator"))>>)>>),
     YArray(<<YHash(<<Field("names", Txt("Doe")), Field("role", Txt("Foo"))>>)>>),
     YArray(<<YHash(<<Field("role", Txt("director"))>>)>>),
     YArray(<<YHash(<<Field("names", Txt("Doe"))>>)>>),
     YArray(<<YHash(<<Field("role", Num(5)), Field("names", Num(5))>>)>>),
     YArray(<<YHash(<<Field("names", Txt("Doe")), Field("role", Num(5))>>)>>)}

\* an integer year no i32 holds: 2^32 + 2020
BigYear == YInteger(<<0, 1, 0, 2020>>)

DateValues == {Num(2020), Num(-44), BigYear, Txt("2020-05"), Txt("May"), YBoolean(TRUE)}

UrlValues ==
    {Txt("https://a.example/"), Txt("not a url"), Num(5),
     YHash(<<Field("value", Txt("https://a.example/"))>>),
     YHash(<<Field("value", Txt("https://a.example/")), Field("date", Num(2020))>>),
     YHash(<<Field("value", Txt("https://a.example/")), Field("date", BigYear)>>),
     YHash(<<Field("value", Txt("https://a.example/")), Field("date", Txt("2020-05"))>>),
     YHash(<<Field("value", Txt("https://a.example/")), Field("date", Txt("May"))>>),
     YHash(<<Field("value", Txt("https://a.example/")), Field("date", YNull)>>),
     YHash(<<Field("date", Num(2020))>>),
     YHash(<<Field("value", Num(5))>>),
     YHash(<<Field("value", Txt("not a url"))>>)}

Scalars == {Txt("x"), Num(12), YReal("1e3"), YReal("1.5"), YBoolean(TRUE), YNull}

\* a nested entry's own fields, before its `parent`
NestedBases ==
    {<<>>, <<Field("type", Txt("Periodical"))>>, <<Field("type", Txt("Foo"))>>,
     <<Field("title", Num(5))>>}
Siblings == {YHash(<<Field("type", Txt("book"))>>), Num(5)}

RECURSIVE NestedEntries(_)
RECURSIVE ParentValues(_)
\* the mappings of nested entries with at most d levels of entries
NestedEntries(d) ==
    IF d = 0 THEN {}
    ELSE {b \o p : b \in NestedBases, p \in Opt("parent", ParentValues(d - 1))}
\* the values of a `parent` field with at most d levels of entries below
ParentValues(d) ==
    IF d = 0 THEN {}
    ELSE LET hashes == {YHash(e) : e \in NestedEntries(d)}
         IN  {Num(5), Txt("x"), YArray(<<>>)} \cup hashes
             \cup {YArray(<<h, t>>) : h \in hashes, t \in Siblings}
             \cup {YArray(<<YHash(<<Field("type", Txt("book"))>>), h>>) : h \in hashes}

\* every field with the values it is read from, well-formed and not
FieldPool ==
    {Field("type", v) : v \in {Txt("Article"), Txt("BOOK"), Txt("periodical"),
                               Txt("misc"), Txt("Foo"), Txt(""), Num(5)}}
    \cup {Field(n, v) :
            n \in {"title", "publisher", "location", "archive", "archive-location"},
            v \in FormattableMaps \cup {Txt("T"), Num(5)}}
    \cup {Field(n, v) : n \in {"author", "editor"}, v \in PersonValues}
    \cup {Field("affiliated", v) : v \in AffiliatedValues}
    \cup {Field("date", v) : v \in DateValues}
    \cup {Field(n, v) : n \in {"issue", "edition"}, v \in Scalars}
    \cup {Field(n, v) : n \in {"volume-total", "page-total"}, v \in Scalars}
    \cup {Field(n, v) : n \in {"volume", "page-range"},
                        v \in Scalars \cup {Txt("10-50"), Txt("3-9")}}
    \cup {Field("runtime", v) : v \in {Txt("00:01:00"), Txt("soon"), Num(5)}}
    \cup {Field("time-range", v) : v \in {Txt("00:01:00-00:01:30"), Txt("soon"), Num(5)}}
    \cup {Field("url", v) : v \in UrlValues}
    \cup {Field("language", v) : v \in {Txt("en"), Txt("not a language"), Num(5)}}
    \cup {Field("parent", v) : v \in ParentValues(MaxDepth)}
    \cup {Field(n, v) :
            n \in {"organization", "version", "issn", "isbn", "doi",
                   "serial-number", "note", "genre"},
            v \in Scalars \cup {YArray(<<>>)}}
    \cup {<<IntKey, Txt("x")>>}

\* the fields the entries of a document with several fields are made of
MultiPool ==
    {Field("type", Txt("BOOK")), Field("type", Txt("Foo")), Field("type", Num(5)),
     Field("title", Txt("T")), Field("title", YHash(<<>>)),
     Field("page-total", Num(12)), Field("page-total", Txt("x")),
     Field("page-range", Txt("10-50")), Field("author", Num(5)),
     Field("parent", YHash(<<Field("type", Txt("Periodical"))>>)),
     Field("parent", Num(5)), Field("date", Txt("May")),
     <<IntKey, Txt("x")>>}

\* the entries the documents with several entries are made of
BatchEntries ==
    {YHash(<<>>), YHash(<<Field("type", Txt("Article"))>>),
     YHash(<<Field("type", Num(5))>>),
     YHash(<<Field("type", Txt("Foo")), Field("title", Txt("T"))>>),
     YHash(<<Field("page-total", Txt("x"))>>),
     YHash(<<Field("title", Txt("T")), Field("runtime", Txt("soon"))>>),
     Num(5)}
\* the keys an entry may have at each place of such a document
KeyNames == <<"a", "b", "c", "d", "e", "f", "g", "h">>
RootKeys(i) ==
    {Txt(KeyNames[i])}
    \cup (IF i = 1 THEN {Txt("")} ELSE IF i = 2 THEN {IntKey} ELSE {})
\* the documents of k entries
RECURSIVE Batches(_)
Batches(k) ==
    IF k = 0 THEN {<<>>}
    ELSE {Append(doc, <<key, e>>) :
            doc \in Batches(k - 1), key \in RootKeys(k), e \in BatchEntries}

OneEntry(fields) == YHash(<< <<Txt("a"), YHash(fields)>> >>)

\* the root values of the documents
Roots ==
    {YHash(doc) : doc \in UNION {Batches(k) : k \in 0 .. MaxEntries}}
    \cup {OneEntry(fields) : fields \in {f \in SeqsUpTo(MultiPool, MaxFields) :
                                            DistinctKeys(f)}}
    \cup {OneEntry(<<f>>) : f \in FieldPool}
    \cup {YArray(<<>>), YArray(<<YHash(<<>>)>>), Txt("x"), Num(5), YNull}

\* what YamlLoader::load_from_str returns: a scan error, or the documents
\* of the text, none for a text without a document
Files ==
    {Err(Scan), Ok(<<>>)}
    \cup {Ok(<<root>>) : root \in Roots}
    \cup {Ok(<<OneEntry(<<>>), second>>) : second \in {Num(5), OneEntry(<<Field("type", Num(5))>>)}}
    \cup {Ok(<<Num(5), OneEntry(<<>>)>>)}

\* ------------------------------------------------------ load, as an action

InitLoad ==
    /\ file \in Files
    /\ result = NotCalled
    /\ entry = NotCalled
    /\ c_entry = NotCalled /\ c_spec = NotCalled /\ c_result = NotCalled

CallLoad ==
    /\ result = NotCalled
    /\ result' = load_yaml_structure(file)
    /\ UNCHANGED <<entry, file, c_entry, c_spec, c_result>>

NextLoad == CallLoad

SpecLoad == InitLoad /\ [][NextLoad]_vars

\* ------------------------------------------------------ check_with_spec

\* EntryType::check: the type satisfies the constraint `here`, which is
\* kept as the set of the entry types that satisfy it
EntryType_check(entry_type, here) == entry_type \in here

EntryTypeSpec(here, parents) == [here |-> here, parents |-> parents]

RECURSIVE check_with_spec(_, _)
RECURSIVE any_parent(_, _, _)
RECURSIVE constraint_loop(_, _, _)

\* the search stopped at the first parent, whatever it answers
any_parent_first_only(parents, pc, j) ==
    IF j > Len(parents) THEN FALSE ELSE check_with_spec(parents[j], pc)

\* parents.iter().any(|p| p.check_with_spec(pc)), from parent j on
any_parent(parents, pc, j) ==
    IF j > Len(parents) THEN FALSE
    ELSE IF check_with_spec(parents[j], pc) THEN TRUE
    ELSE any_parent(parents, pc, j + 1)

\* the for loop over constraint.parents, from constraint i on
constraint_loop(parents, pcs, i) ==
    IF i > Len(pcs) THEN TRUE
    ELSE IF ~any_parent(parents, pcs[i], 1) THEN FALSE
    ELSE constraint_loop(parents, pcs, i + 1)

check_with_spec(self, constraint) ==
    IF ~EntryType_check(self.entry_type, constraint.here) THEN FALSE
    ELSE LET got == get_parents(self)
             parents == IF IsOk(got) THEN got[2] ELSE <<>>
         IN  constraint_loop(parents, constraint.parents, 1)

\* the entry types and constraints of the trees check_with_spec is run on
TreeTypes == {"Article", "Periodical", "Book"}
TreeHeres == {{"Article"}, {"Periodical"}, {"Book"}}
TreeKey == "k"

RECURSIVE TreesOf(_)
RECURSIVE ForestsOf(_)
\* the sequences of entries with m entries in all, parents counted
ForestsOf(m) ==
    IF m = 0 THEN {<<>>}
    ELSE UNION {{<<t>> \o f : t \in TreesOf(k), f \in ForestsOf(m - k)} : k \in 1 .. m}
\* the entries with n entries in all: Entry::new, then set_parents unless
\* there is no parent
TreesOf(n) ==
    {IF f = <<>> THEN new(TreeKey, ty)
     ELSE fields_single_set(new(TreeKey, ty), "parent", "Entries", f) :
        ty \in TreeTypes, f \in ForestsOf(n - 1)}

\* entries whose `parent` field holds no entry: an empty list, a text
NoParentTrees ==
    {fields_single_set(new(TreeKey, ty), "parent", "Entries", <<>>) : ty \in TreeTypes}
    \cup {set(new(TreeKey, ty), "parent", from("Text", "x")) : ty \in TreeTypes}

EntryTrees == UNION {TreesOf(n) : n \in 1 .. MaxNodes} \cup NoParentTrees

RECURSIVE SpecTreesOf(_)
RECURSIVE SpecForestsOf(_)
SpecForestsOf(m) ==
    IF m = 0 THEN {<<>>}
    ELSE UNION {{<<t>> \o f : t \in SpecTreesOf(k), f \in SpecForestsOf(m - k)} :
                  k \in 1 .. m}
SpecTreesOf(n) ==
    {EntryTypeSpec(here, f) : here \in TreeHeres, f \in SpecForestsOf(n - 1)}

\* constraints that admit several types
SeveralTypes ==
    {EntryTypeSpec({"Article", "Book"}, f) : f \in SpecForestsOf(0) \cup SpecForestsOf(1)}
    \cup {EntryTypeSpec({"Article"}, <<EntryTypeSpec({"Periodical", "Book"}, <<>>)>>)}

SpecTrees == UNION {SpecTreesOf(n) : n \in 1 .. MaxSpecNodes} \cup SeveralTypes

InitCheck ==
    /\ c_entry \in EntryTrees
    /\ c_spec \in SpecTrees
    /\ c_result = NotCalled
    /\ entry = NotCalled /\ file = NotCalled /\ result = NotCalled

CallCheck ==
    /\ c_result = NotCalled
    /\ c_result' = Ok(check_with_spec(c_entry, c_spec))
    /\ UNCHANGED <<entry, file, result, c_entry, c_spec>>

NextCheck == CallCheck

SpecCheck == InitCheck /\ [][NextCheck]_vars

\* ------------------------------------------------------------- claims

\* the entries a `parent` field holds, none when it holds no entries
ParentEntries(e) ==
    IF e.content["parent"][1] = "Entries" THEN e.content["parent"][2] ELSE <<>>

RECURSIVE Satisfies(_, _)
Satisfies(e, s) ==
    /\ e.entry_type \in s.here
    /\ \A i \in DOMAIN s.parents :
          \E j \in DOMAIN ParentEntries(e) :
              Satisfies(ParentEntries(e)[j], s.parents[i])

ArticleInPeriodical ==
    fields_single_set(new(TreeKey, "Article"), "parent", "Entries",
                      <<new(TreeKey, "Periodical")>>)
SpecArticleInPeriodical ==
    EntryTypeSpec({"Article"}, <<EntryTypeSpec({"Periodical"}, <<>>)>>)
SpecArticleInBook ==
    EntryTypeSpec({"Article"}, <<EntryTypeSpec({"Book"}, <<>>)>>)

\* C1: check_with_spec(e, s) is true exactly when e's type satisfies s.here
\* and every child constraint of s.parents is satisfied, recursively, by at
\* least one entry of e's `parent` field (no entry when the field is absent);
\* an article in a periodical satisfies spec{article, [periodical]} and does
\* not satisfy spec{article, [book]}.
C1_CheckWithSpec ==
    c_result # NotCalled =>
        /\ c_result = Ok(Satisfies(c_entry, c_spec))
        /\ (c_entry = ArticleInPeriodical /\ c_spec = SpecArticleInPeriodical
                => c_result = Ok(TRUE))
        /\ (c_entry = ArticleInPeriodical /\ c_spec = SpecArticleInBook
                => c_result = Ok(FALSE))

C1_Witness ==
    /\ c_entry = ArticleInPeriodical
    /\ c_spec = SpecArticleInPeriodical
    /\ c_result = Ok(TRUE)

Called == result # NotCalled

\* the root mapping of the first document, when there is one
HasRootMapping ==
    /\ IsOk(file) /\ Len(file[2]) >= 1 /\ IsSome(into_hash(file[2][1]))
RootMapping == into_hash(file[2][1])[2]

\* C2: load returns a value for every text, a list of entries or an error;
\* no text, one without any document included, makes it abort.
C2_LoadAlwaysReturns == Called => IsOk(result) \/ IsErr(result)

Least(S) == CHOOSE x \in S : \A y \in S : x <= y

\* the error a field gives when it is read alone, None when it gives none
FieldFailure(key, pair) ==
    LET alone == entry_field(key, pair, new(key, "Misc"))
    IN  IF IsErr(alone) THEN Some(alone[2]) ELSE None

\* the error of the first failing field of an entry, in document order
EntryFailure(key, yaml) ==
    IF ~IsSome(into_hash(yaml)) THEN Some(EntryStructure(key))
    ELSE LET pairs == into_hash(yaml)[2]
             failing == {j \in DOMAIN pairs : IsSome(FieldFailure(key, pairs[j]))}
         IN  IF failing = {} THEN None ELSE FieldFailure(key, pairs[Least(failing)])

\* the error of pair i of the root mapping, None when it is ingested
RootFailure(doc, i) ==
    IF ~IsSome(into_string(doc[i][1])) THEN Some(KeyUnparsable)
    ELSE EntryFailure(into_string(doc[i][1])[2], doc[i][2])

FailingEntries(doc) == {i \in DOMAIN doc : IsSome(RootFailure(doc, i))}

\* C4: when an entry or a field of the root mapping fails, load returns the
\* error of the first failure in document order and no entries, whatever
\* came before it and whatever comes after it.
C4_FailFast ==
    Called /\ HasRootMapping /\ FailingEntries(RootMapping) # {} =>
        result = Err(RootFailure(RootMapping, Least(FailingEntries(RootMapping)))[2])

\* the first entry is ingested, the next two fail, each in its own way, and
\* the error of the second entry is returned
C4_Witness ==
    /\ Called /\ HasRootMapping
    /\ FailingEntries(RootMapping) = {2, 3}
    /\ RootFailure(RootMapping, 2) # RootFailure(RootMapping, 3)
    /\ result = Err(RootFailure(RootMapping, 2)[2])

\* the names of the fields of an entry mapping, those of its nested
\* entries included
RECURSIVE FieldNamesWithin(_)
FieldNamesWithin(yaml) ==
    IF ~IsSome(into_hash(yaml)) THEN {}
    ELSE LET pairs == into_hash(yaml)[2]
         IN  UNION {IF ~IsSome(into_string(pairs[j][1])) THEN {}
                    ELSE {into_string(pairs[j][1])[2]}
                         \cup (IF into_string(pairs[j][1])[2] # "parent" THEN {}
                               ELSE IF is_array(pairs[j][2])
                               THEN UNION {FieldNamesWithin(into_iter(pairs[j][2])[k]) :
                                             k \in DOMAIN into_iter(pairs[j][2])}
                               ELSE FieldNamesWithin(pairs[j][2])) :
                      j \in DOMAIN pairs}

\* the document has the shape the structural checks ask for: string keys,
\* mappings as entries, string field names
TopLevelSound(doc) ==
    \A i \in DOMAIN doc :
        /\ IsSome(into_string(doc[i][1]))
        /\ IsSome(into_hash(doc[i][2]))
        /\ \A j \in DOMAIN into_hash(doc[i][2])[2] :
              IsSome(into_string(into_hash(doc[i][2])[2][j][1]))

\* the error names an entry of the document and a field of that entry
CarriesKeyAndField(e, doc) ==
    /\ e[1] \in {"DataTypeMismatch", "DataType"}
    /\ \E i \in DOMAIN doc :
          /\ e[2] = into_string(doc[i][1])[2]
          /\ e[3] \in FieldNamesWithin(doc[i][2])

\* C5: every failure caused by the content of a field, at any depth and for
\* every field name, `parent` included, reaches the caller as an error that
\* carries the owning entry's key and the name of the failing field.
C5_FieldErrorsCarryKeyAndField ==
    Called /\ HasRootMapping /\ TopLevelSound(RootMapping) /\ IsErr(result) =>
        CarriesKeyAndField(result[2], RootMapping)

\* C9: every entry load returns has a non-empty key.
C9_KeysNonEmpty ==
    Called /\ IsOk(result) => \A i \in DOMAIN result[2] : result[2][i].key # ""

\* ---------------------------------------------- claims on the accessors

FieldOf(row) == row[2]
ShapeOf(row) == row[3]
Stored(self, field_name) == IsSome(get(self, field_name))
StoredShape(self, field_name) == self.content[field_name][1]
StoredAs(self, field_name, shape) ==
    Stored(self, field_name) /\ StoredShape(self, field_name) = shape
StoredAsOther(self, field_name, shape) ==
    Stored(self, field_name) /\ StoredShape(self, field_name) # shape

\* C3: a stored value queried through a typed accessor of another shape
\* yields WrongType, for every accessor: those of fields!, get_authors,
\* get_page_total and get_runtime (which read page-range and time-range when
\* their own field is absent).
C3_MismatchIsWrongType ==
    /\ \A row \in Fields :
          StoredAsOther(entry, FieldOf(row), ShapeOf(row))
              => fields_get(entry, FieldOf(row), ShapeOf(row)) = Err("WrongType")
    /\ StoredAsOther(entry, "author", "Persons")
          => get_authors(entry) = Err("WrongType")
    /\ \A overflow_checks \in BOOLEAN :
          (\/ StoredAsOther(entry, "page-total", "Integer")
           \/ (~Stored(entry, "page-total")
                  /\ StoredAsOther(entry, "page-range", "Range")))
              => get_page_total(entry, overflow_checks) = Err("WrongType")
    /\ (\/ StoredAsOther(entry, "runtime", "Duration")
        \/ (~Stored(entry, "runtime")
               /\ StoredAsOther(entry, "time-range", "TimeRange")))
          => get_runtime(entry) = Err("WrongType")

\* C6: get_page_total returns the stored page-total; without a page-total and
\* with a page-range r it returns r.end - r.start; without both it fails with
\* NoSuchField.
C6_PageTotal ==
        \A overflow_checks \in BOOLEAN :
            LET total == get_page_total(entry, overflow_checks)
                range == entry.content["page-range"][2]
            IN  /\ StoredAs(entry, "page-total", "Integer")
                      => total = Ok(entry.content["page-total"][2])
                /\ ~Stored(entry, "page-total") /\ StoredAs(entry, "page-range", "Range")
                      => IsOk(total) /\ IsDifference(total[2], range.end, range.start)
                /\ ~Stored(entry, "page-total") /\ ~Stored(entry, "page-range")
                      => total = Err("NoSuchField")

FormattableNames == {"title", "publisher", "location", "archive", "archive-location"}

\* the document is one entry with one field, a formattable text given as a
\* mapping
OneFormattableMap ==
    /\ HasRootMapping /\ Len(RootMapping) = 1
    /\ IsSome(into_string(RootMapping[1][1]))
    /\ IsSome(into_hash(RootMapping[1][2]))
    /\ Len(into_hash(RootMapping[1][2])[2]) = 1
    /\ \E n \in FormattableNames : into_hash(RootMapping[1][2])[2][1][1] = Txt(n)
    /\ IsSome(into_hash(into_hash(RootMapping[1][2])[2][1][2]))
TheKey == into_string(RootMapping[1][1])[2]
TheFieldName == into_string(into_hash(RootMapping[1][2])[2][1][1])[2]
TheMap == into_hash(into_hash(RootMapping[1][2])[2][1][2])[2]

\* the mapping holds a string under the key k
HasStringAt(pairs, k) ==
    \E i \in DOMAIN pairs : pairs[i][1] = Txt(k) /\ pairs[i][2][1] = "String"
StringAt(pairs, k) ==
    pairs[CHOOSE i \in DOMAIN pairs : pairs[i][1] = Txt(k)][2][2]

FailsWithNoValue ==
    result = Err(new_data_type_src_error(TheKey, TheFieldName,
                                         FormattableStringError("NoValue")))

\* C8, as claimed: a mapping-form formattable text without a string `value`
\* fails with NoValue, whether or not it has title-case or sentence-case.
C8_ValueRequired ==
    Called /\ OneFormattableMap /\ ~HasStringAt(TheMap, "value") => FailsWithNoValue

\* C8, amended: it fails with NoValue when none of `value`, `sentence-case`
\* and `title-case` holds a string; without a string `value` and with a
\* string `sentence-case` or `title-case` it does not fail with NoValue, and
\* the text it yields has the sentence-case string, or else the title-case
\* string, as its value.
C8_ValueOrAlternate ==
    Called /\ OneFormattableMap /\ ~HasStringAt(TheMap, "value") =>
        IF HasStringAt(TheMap, "sentence-case") \/ HasStringAt(TheMap, "title-case")
        THEN /\ ~FailsWithNoValue
             /\ IsOk(result) =>
                   result[2][1].content[TheFieldName][2].value =
                       IF HasStringAt(TheMap, "sentence-case")
                       THEN StringAt(TheMap, "sentence-case")
                       ELSE StringAt(TheMap, "title-case")
        ELSE FailsWithNoValue

\* a mapping with a title-case string and no other string is ingested, with
\* that string as the value
C8_Witness ==
    /\ Called /\ OneFormattableMap
    /\ ~HasStringAt(TheMap, "value") /\ ~HasStringAt(TheMap, "sentence-case")
    /\ HasStringAt(TheMap, "title-case")
    /\ IsOk(result)
    /\ result[2][1].content[TheFieldName][2].value = StringAt(TheMap, "title-case")

\* the field is a `type` whose string names no entry type once lowercased
UnrecognizedType(pair) ==
    /\ pair[1] = Txt("type")
    /\ pair[2][1] = "String"
    /\ \A name \in DOMAIN EntryTypeNamed : to_lowercase(pair[2][2]) # name
HasUnrecognizedType(yaml) ==
    /\ IsSome(into_hash(yaml))
    /\ \E j \in DOMAIN into_hash(yaml)[2] : UnrecognizedType(into_hash(yaml)[2][j])

\* the entries a `parent` value is read as
ParentItems(value) == IF is_array(value) THEN into_iter(value) ELSE <<value>>

\* the entry ingested from the mapping, and every entry nested in it, is a
\* Misc wherever its `type` is not recognized
RECURSIVE MiscWhereUnrecognized(_, _)
MiscWhereUnrecognized(yaml, e) ==
    /\ HasUnrecognizedType(yaml) => e.entry_type = "Misc"
    /\ \A j \in DOMAIN into_hash(yaml)[2] :
          into_hash(yaml)[2][j][1] = Txt("parent") =>
              \A k \in DOMAIN ParentItems(into_hash(yaml)[2][j][2]) :
                  MiscWhereUnrecognized(ParentItems(into_hash(yaml)[2][j][2])[k],
                                        e.content["parent"][2][k])

\* no key, entry or field fails, the unrecognized types left aside
NothingElseFails(doc) ==
    \A i \in DOMAIN doc :
        /\ IsSome(into_string(doc[i][1]))
        /\ IsSome(into_hash(doc[i][2]))
        /\ \A j \in DOMAIN into_hash(doc[i][2])[2] :
              \/ UnrecognizedType(into_hash(doc[i][2])[2][j])
              \/ FieldFailure(into_string(doc[i][1])[2],
                              into_hash(doc[i][2])[2][j]) = None

\* C10: an entry whose `type` string matches no entry type after lowercasing
\* is ingested as a Misc, and the entry and the document are ingested when no
\* other field fails.
C10_UnrecognizedTypeIsMisc ==
    Called /\ HasRootMapping =>
        /\ NothingElseFails(RootMapping) => IsOk(result)
        /\ IsOk(result) =>
              \A i \in DOMAIN RootMapping :
                  MiscWhereUnrecognized(RootMapping[i][2], result[2][i])

\* a document of several entries, one of an unrecognized type, is ingested
C10_Witness ==
    /\ Called /\ HasRootMapping /\ IsOk(result)
    /\ Len(RootMapping) >= 2
    /\ \E i \in DOMAIN RootMapping :
          /\ HasUnrecognizedType(RootMapping[i][2])
          /\ Len(into_hash(RootMapping[i][2])[2]) >= 2
          /\ result[2][i].entry_type = "Misc"

\* --------------------------------------------- claims on nested entries

\* every entry nested in e, at every depth, has the key k
RECURSIVE NestedKeysAre(_, _)
NestedKeysAre(e, k) ==
    \A j \in DOMAIN ParentEntries(e) :
        /\ ParentEntries(e)[j].key = k
        /\ NestedKeysAre(ParentEntries(e)[j], k)

\* the levels of entries below e
RECURSIVE NestedDepth(_)
NestedDepth(e) ==
    IF ParentEntries(e) = <<>> THEN 0
    ELSE 1 + Least({d \in 0 .. MaxDepth + 1 :
                      \A j \in DOMAIN ParentEntries(e) :
                          NestedDepth(ParentEntries(e)[j]) <= d})

\* C11: every nested entry ingested from a `parent` field, at every depth and
\* in the single-mapping and the sequence form, has the key string of the
\* top-level entry that contains it.
C11_NestedKeys ==
    Called /\ IsOk(result) =>
        \A i \in DOMAIN result[2] :
            /\ result[2][i].key = into_string(RootMapping[i][1])[2]
            /\ NestedKeysAre(result[2][i], result[2][i].key)

\* an entry is ingested with a sequence of two parents, one of which has a
\* parent of its own
C11_Witness ==
    /\ Called /\ IsOk(result)
    /\ \E i \in DOMAIN result[2] :
          /\ Len(ParentEntries(result[2][i])) = 2
          /\ NestedDepth(result[2][i]) = 2
          /\ NestedKeysAre(result[2][i], "a")

\* --------------------------------------------- claims on absent fields

\* C12: get_authors on an entry without an `author` field returns the empty
\* sequence and no error; every other typed accessor on an absent field, its
\* fallback field absent too where it has one, returns NoSuchField.
C12_AbsentFields ==
    /\ ~Stored(entry, "author") => get_authors(entry) = Ok(<<>>)
    /\ \A row \in Fields :
          ~Stored(entry, FieldOf(row))
              => fields_get(entry, FieldOf(row), ShapeOf(row)) = Err("NoSuchField")
    /\ \A overflow_checks \in BOOLEAN :
          ~Stored(entry, "page-total") /\ ~Stored(entry, "page-range")
              => get_page_total(entry, overflow_checks) = Err("NoSuchField")
    /\ ~Stored(entry, "runtime") /\ ~Stored(entry, "time-range")
          => get_runtime(entry) = Err("NoSuchField")

\* an entry that holds an editor and a title and no author: get_authors
\* returns the empty sequence, get_page_total and get_runtime NoSuchField
C12_Witness ==
    /\ StoredAs(entry, "editor", "Persons") /\ Stored(entry, "title")
    /\ ~Stored(entry, "author")
    /\ get_authors(entry) = Ok(<<>>)
    /\ get_page_total(entry, TRUE) = Err("NoSuchField")
    /\ get_runtime(entry) = Err("NoSuchField")

\* ------------------------------------------------ claims on the root

\* the first document of the text, when the text has one
HasFirstDocument == IsOk(file) /\ Len(file[2]) >= 1
FirstDocument == file[2][1]

\* C13: when the root of the first parsed document is not a mapping, a
\* sequence or a scalar for example, load fails with the Structure error and
\* returns no entries.
C13_RootMustBeMapping ==
    Called /\ HasFirstDocument /\ ~IsSome(into_hash(FirstDocument))
        => result = Err(Structure)

\* a root that is a non-empty sequence was loaded and gave Structure
C13_Witness ==
    /\ Called /\ HasFirstDocument
    /\ is_array(FirstDocument) /\ Len(into_iter(FirstDocument)) >= 1
    /\ result = Err(Structure)

\* ------------------------------------------------- claims on bare years

\* the date of the bare year y, an i64, and nothing else
YearIs(date, y) ==
    /\ date.month = None /\ date.day = None
    /\ I64(date.year) = y

\* the pair holds the integer y under the name
IsBareYear(pair, name) == pair[1] = Txt(name) /\ IsSome(as_i64(pair[2]))

\* the `date` field of the entry is the bare year y
DateIsYear(self, y) ==
    /\ StoredAs(self, "date", "Date")
    /\ YearIs(self.content["date"][2], y)

\* the visit date of the entry's url is the bare year y
VisitDateIsYear(self, y) ==
    /\ StoredAs(self, "url", "Url")
    /\ IsSome(self.content["url"][2].visit_date)
    /\ YearIs(self.content["url"][2].visit_date[2], y)

\* C14: a `date` field, and the `date` key of a mapping-form `url`, given as
\* a bare integer y is ingested as the date whose year is exactly y, for
\* every 64-bit signed y, those outside the 32-bit signed range included.
C14_BareYearExact ==
    Called /\ IsOk(result) =>
        \A i \in DOMAIN result[2] :
            LET pairs == into_hash(RootMapping[i][2])[2]
            IN  \A j \in DOMAIN pairs :
                    /\ IsBareYear(pairs[j], "date")
                          => DateIsYear(result[2][i], as_i64(pairs[j][2])[2])
                    /\ pairs[j][1] = Txt("url") /\ IsSome(into_hash(pairs[j][2]))
                          => \A k \in DOMAIN into_hash(pairs[j][2])[2] :
                                LET inner == into_hash(pairs[j][2])[2][k]
                                IN  IsBareYear(inner, "date")
                                       => VisitDateIsYear(result[2][i],
                                                          as_i64(inner[2])[2])

====
